---- MODULE Spec2Model ----
(***************************************************************************)
(* Model of meal_max/models/kitchen_model.py: the meals table and the      *)
(* functions create_meal, delete_meal, get_leaderboard, get_meal_by_id,    *)
(* get_meal_by_name and update_meal_stats, and the Meal dataclass.         *)
(*                                                                         *)
(* Every function opens its own connection and runs one or two SQL         *)
(* statements.  A statement is one atomic step of the model; a function    *)
(* that runs a SELECT and then an UPDATE (delete_meal, update_meal_stats)  *)
(* is two steps, so that callers on different connections can interleave   *)
(* between the statements (the SELECT is not inside a write transaction:   *)
(* the code opens no transaction itself).                                  *)
(* Spec lets one call run at a time; ConcSpec lets the callers interleave. *)
(***************************************************************************)
EXTENDS Integers, Sequences, FiniteSets, TLC

VARIABLES
    meals,      \* the meals table: a sequence of rows in rowid order
    pc,         \* per caller: "idle", "delete_update" or "stats_update"
    req,        \* per caller: the arguments of the call in flight
    last,       \* the call that took the latest step: arguments, outcome, return value
    okDeletes   \* per id: how many delete_meal calls on it returned normally

vars == <<meals, pc, req, last, okDeletes>>

-----------------------------------------------------------------------------
(* Bounds of the model *)

\* update_meal_stats is not started on a row whose battles would pass this:
\* MaxBattles when one call runs at a time, ConcMaxBattles when calls interleave.
MaxBattles == 3
ConcMaxBattles == 2
\* Ids passed to the functions are 1..MaxId (more ids than rows can exist).
MaxId == 3

Callers == {"c1", "c2"}
\* The caller of the single-threaded specification.
SeqCaller == "c1"
Ids == 1..MaxId

-----------------------------------------------------------------------------
(* Input values *)

\* A price argument: a number (an integer number of price units) or a value
\* that is neither int nor float.
Num(v) == [num |-> TRUE, val |-> v]
NonNumeric == [num |-> FALSE, val |-> 0]

Names == {"Pizza", "Sushi"}
Cuisines == {"Italian", "Japanese"}
NumericPrices == {Num(-1), Num(0), Num(1), Num(2)}
PriceInputs == NumericPrices \cup {NonNumeric}
Difficulties == {"LOW", "MED", "HIGH"}
DifficultyInputs == Difficulties \cup {"EASY"}
ResultInputs == {"win", "loss", "draw"}
SortInputs == {"wins", "win_pct", "price"}

\* The error kinds of the functions, all raised as ValueError with a message:
\*   "Invalid ..."          -> InvalidArgument
\*   "... already exists"   -> DuplicateEntity
\*   "... not found"        -> NotFound
\*   "... has been deleted" -> AlreadyDeleted
OK == "OK"
InvalidArgument == "InvalidArgument"
DuplicateEntity == "DuplicateEntity"
NotFound == "NotFound"
AlreadyDeleted == "AlreadyDeleted"
\* The call has run its SELECT and has not returned yet.
Pending == "Pending"

None == [none |-> TRUE]
NoReq == [op |-> "none"]

\* The record kept in last: op, its arguments, its outcome, what it returned, whether
\* it entered get_db_connection and how many statements it executed.
Done(op, args, result, ret, conn, stmts) ==
    [op |-> op, args |-> args, result |-> result, ret |-> ret,
     conn |-> conn, stmts |-> stmts]

Idle(c, seq) ==
    /\ pc[c] = "idle"
    /\ seq => \A d \in Callers : pc[d] = "idle"

-----------------------------------------------------------------------------
(* The Meal dataclass *)

\* Meal.__post_init__: raises ValueError when it returns FALSE.
Meal_post_init(price, difficulty) ==
    /\ ~(price < 0)
    /\ difficulty \in {"LOW", "MED", "HIGH"}

\* Meal(id, meal, cuisine, price, difficulty): the fields of the dataclass.
Meal(id, meal, cuisine, price, difficulty) ==
    [id |-> id, meal |-> meal, cuisine |-> cuisine, price |-> price,
     difficulty |-> difficulty]

-----------------------------------------------------------------------------
(* The meals table.  A row is a record with the columns of the schema
   meals(id, meal, cuisine, price, difficulty, battles, wins, deleted). *)

\* meal TEXT UNIQUE: an INSERT of a name some row holds is refused.
NameTaken(tbl, meal) == \E i \in 1..Len(tbl) : tbl[i].meal = meal

\* id INTEGER PRIMARY KEY AUTOINCREMENT; rows are never removed.
NextId(tbl) == Len(tbl) + 1

\* The columns an INSERT does not name: battles DEFAULT 0, wins DEFAULT 0,
\* deleted DEFAULT FALSE.
SchemaDefaults == [battles |-> 0, wins |-> 0, deleted |-> FALSE]

\* SELECT ... WHERE id = ?  followed by fetchone(): the row, or None.
RowById(tbl, id) ==
    IF \E i \in 1..Len(tbl) : tbl[i].id = id
    THEN tbl[CHOOSE i \in 1..Len(tbl) : tbl[i].id = id]
    ELSE None

\* SELECT ... WHERE meal = ?  followed by fetchone(): the row, or None.
RowByName(tbl, meal) ==
    IF \E i \in 1..Len(tbl) : tbl[i].meal = meal
    THEN tbl[CHOOSE i \in 1..Len(tbl) : tbl[i].meal = meal]
    ELSE None

-----------------------------------------------------------------------------
(* create_meal *)

\* A plausible slip: the comparison price < 0, which lets a zero price through.
ValidPriceOrZero(price) == price.num /\ price.val >= 0

\* not isinstance(price, (int, float)) or price <= 0  -> ValueError
ValidPrice(price) == price.num /\ price.val > 0

\* difficulty not in ['LOW', 'MED', 'HIGH']  -> ValueError
ValidDifficulty(difficulty) == difficulty \in {"LOW", "MED", "HIGH"}

\* A plausible slip: INSERT OR REPLACE, which overwrites the row of that name.
InsertOrReplaceMeal(tbl, meal, cuisine, price, difficulty) ==
    LET row(id) == [id |-> id, meal |-> meal, cuisine |-> cuisine,
                    price |-> price, difficulty |-> difficulty,
                    battles |-> SchemaDefaults.battles,
                    wins |-> SchemaDefaults.wins,
                    deleted |-> SchemaDefaults.deleted]
    IN  IF NameTaken(tbl, meal)
        THEN [err |-> "none",
              tbl |-> [i \in 1..Len(tbl) |->
                          IF tbl[i].meal = meal THEN row(tbl[i].id) ELSE tbl[i]]]
        ELSE [err |-> "none", tbl |-> Append(tbl, row(NextId(tbl)))]

\* A plausible slip: the name is compared with the rows that are not deleted
\* only, so the name of a soft-deleted meal can be inserted again.
InsertMealUniqueAmongActive(tbl, meal, cuisine, price, difficulty) ==
    IF \E i \in 1..Len(tbl) : tbl[i].meal = meal /\ ~tbl[i].deleted
    THEN [err |-> "IntegrityError", tbl |-> tbl]
    ELSE [err |-> "none",
          tbl |-> Append(tbl, [id |-> NextId(tbl), meal |-> meal,
                               cuisine |-> cuisine, price |-> price,
                               difficulty |-> difficulty,
                               battles |-> SchemaDefaults.battles,
                               wins |-> SchemaDefaults.wins,
                               deleted |-> SchemaDefaults.deleted])]

\* INSERT INTO meals (meal, cuisine, price, difficulty) VALUES (?, ?, ?, ?)
\* and commit: the table after it, or sqlite3.IntegrityError and the table
\* as it was.
InsertMeal(tbl, meal, cuisine, price, difficulty) ==
    IF NameTaken(tbl, meal)
    THEN [err |-> "IntegrityError", tbl |-> tbl]
    ELSE [err |-> "none",
          tbl |-> Append(tbl, [id |-> NextId(tbl), meal |-> meal,
                               cuisine |-> cuisine, price |-> price,
                               difficulty |-> difficulty,
                               battles |-> SchemaDefaults.battles,
                               wins |-> SchemaDefaults.wins,
                               deleted |-> SchemaDefaults.deleted])]

\* The argument tuples create_meal is called with: valid ones in which every
\* field takes two values, and invalid ones for each way validation fails.
\* Interleaved callers pass the valid ones only (a call that fails validation
\* touches nothing shared).
ValidCreateInputs ==
    {<<"Pizza", "Italian", Num(1), "LOW">>,
     <<"Pizza", "Japanese", Num(2), "MED">>,
     <<"Sushi", "Japanese", Num(2), "HIGH">>,
     <<"Sushi", "Italian", Num(1), "MED">>}
CreateInputs ==
    ValidCreateInputs
    \cup (Names \X {"Italian"} \X {Num(-1), Num(0), NonNumeric} \X {"MED"})
    \cup (Names \X {"Japanese"} \X {Num(1), Num(0)} \X {"EASY"})

create_meal(c, seq) ==
    /\ Idle(c, seq)
    /\ \E in \in (IF seq THEN CreateInputs ELSE ValidCreateInputs) :
        LET meal == in[1]
            cuisine == in[2]
            price == in[3]
            difficulty == in[4]
            ins == InsertMeal(meals, meal, cuisine, price.val, difficulty)
        IN  IF ~ValidPrice(price) \/ ~ValidDifficulty(difficulty)
            THEN /\ last' = Done("create_meal", in, InvalidArgument, None, FALSE, 0)
                 /\ UNCHANGED meals
            ELSE IF ins.err = "IntegrityError"
            THEN /\ last' = Done("create_meal", in, DuplicateEntity, None, TRUE, 1)
                 /\ UNCHANGED meals
            ELSE /\ last' = Done("create_meal", in, OK, None, TRUE, 1)
                 /\ meals' = ins.tbl
    /\ UNCHANGED <<pc, req, okDeletes>>

-----------------------------------------------------------------------------
(* delete_meal *)

\* A plausible slip: the UPDATE is left out (or not committed).
SkipDeletedUpdate(tbl, id) == tbl

\* A plausible slip: the UPDATE has no WHERE clause.
SetDeletedEveryRow(tbl, id) ==
    [i \in 1..Len(tbl) |-> [tbl[i] EXCEPT !.deleted = TRUE]]

\* UPDATE meals SET deleted = TRUE WHERE id = ?
SetDeleted(tbl, id) ==
    [i \in 1..Len(tbl) |->
        IF tbl[i].id = id THEN [tbl[i] EXCEPT !.deleted = TRUE] ELSE tbl[i]]

\* SELECT deleted FROM meals WHERE id = ?, fetchone()[0] and the two raises:
\* what the first half of delete_meal and of update_meal_stats ends in.
DeletedCheck(tbl, id) ==
    IF RowById(tbl, id) = None THEN NotFound
    ELSE IF RowById(tbl, id).deleted THEN AlreadyDeleted
    ELSE OK

\* The call up to and including the SELECT and its checks.
delete_meal_select(c, seq) ==
    /\ Idle(c, seq)
    /\ \E meal_id \in Ids :
        IF DeletedCheck(meals, meal_id) # OK
        THEN /\ last' = Done("delete_meal", <<meal_id>>,
                             DeletedCheck(meals, meal_id), None, TRUE, 1)
             /\ UNCHANGED <<pc, req>>
        ELSE /\ pc' = [pc EXCEPT ![c] = "delete_update"]
             /\ req' = [req EXCEPT ![c] = [op |-> "delete_meal", id |-> meal_id]]
             /\ last' = Done("delete_meal", <<meal_id>>, Pending, None, TRUE, 1)
    /\ UNCHANGED <<meals, okDeletes>>

\* The UPDATE, the commit and the return.
delete_meal_update(c) ==
    /\ pc[c] = "delete_update"
    /\ meals' = SetDeleted(meals, req[c].id)
    /\ last' = Done("delete_meal", <<req[c].id>>, OK, None, TRUE, 2)
    /\ okDeletes' = [okDeletes EXCEPT ![req[c].id] = @ + 1]
    /\ pc' = [pc EXCEPT ![c] = "idle"]
    /\ req' = [req EXCEPT ![c] = NoReq]

-----------------------------------------------------------------------------
(* update_meal_stats *)

\* A plausible slip: the 'win' statement is run for a loss too.
StatsUpdateAlwaysWin(tbl, id, result) ==
    [i \in 1..Len(tbl) |->
        IF tbl[i].id = id
        THEN [tbl[i] EXCEPT !.battles = @ + 1, !.wins = @ + 1]
        ELSE tbl[i]]

\* A plausible slip: the 'win' statement leaves battles out.
StatsUpdateWinsOnly(tbl, id, result) ==
    [i \in 1..Len(tbl) |->
        IF tbl[i].id # id THEN tbl[i]
        ELSE IF result = "win"
        THEN [tbl[i] EXCEPT !.wins = @ + 1]
        ELSE [tbl[i] EXCEPT !.battles = @ + 1]]

\* UPDATE meals SET battles = battles + 1, wins = wins + 1 WHERE id = ?   (win)
\* UPDATE meals SET battles = battles + 1 WHERE id = ?                    (loss)
StatsUpdate(tbl, id, result) ==
    [i \in 1..Len(tbl) |->
        IF tbl[i].id # id THEN tbl[i]
        ELSE IF result = "win"
        THEN [tbl[i] EXCEPT !.battles = @ + 1, !.wins = @ + 1]
        ELSE [tbl[i] EXCEPT !.battles = @ + 1]]

\* The stat updates other callers have in flight on the row id.
InFlightStats(id) ==
    Cardinality({d \in Callers : pc[d] = "stats_update" /\ req[d].id = id})

\* The call up to and including the SELECT and its checks.
update_meal_stats_select(c, seq) ==
    /\ Idle(c, seq)
    /\ \E meal_id \in Ids, result \in ResultInputs :
        IF DeletedCheck(meals, meal_id) # OK
        THEN /\ last' = Done("update_meal_stats", <<meal_id, result>>,
                             DeletedCheck(meals, meal_id), None, TRUE, 1)
             /\ UNCHANGED <<pc, req>>
        ELSE /\ result \in {"win", "loss"} =>
                   RowById(meals, meal_id).battles + InFlightStats(meal_id)
                       < (IF seq THEN MaxBattles ELSE ConcMaxBattles)
             /\ pc' = [pc EXCEPT ![c] = "stats_update"]
             /\ req' = [req EXCEPT ![c] = [op |-> "update_meal_stats",
                                           id |-> meal_id, result |-> result]]
             /\ last' = Done("update_meal_stats", <<meal_id, result>>, Pending,
                             None, TRUE, 1)
    /\ UNCHANGED <<meals, okDeletes>>

\* The if/elif/else on result: an UPDATE and the commit, or the raise.
update_meal_stats_update(c) ==
    /\ pc[c] = "stats_update"
    /\ IF req[c].result = "win" \/ req[c].result = "loss"
       THEN /\ meals' = StatsUpdate(meals, req[c].id, req[c].result)
            /\ last' = Done("update_meal_stats", <<req[c].id, req[c].result>>,
                            OK, None, TRUE, 2)
       ELSE /\ last' = Done("update_meal_stats", <<req[c].id, req[c].result>>,
                            InvalidArgument, None, TRUE, 1)
            /\ UNCHANGED meals
    /\ pc' = [pc EXCEPT ![c] = "idle"]
    /\ req' = [req EXCEPT ![c] = NoReq]
    /\ UNCHANGED okDeletes

-----------------------------------------------------------------------------
(* get_meal_by_id, get_meal_by_name *)

\* A plausible slip: row[5] is not tested.
get_meal_by_id_ignoring_deleted(tbl, meal_id) ==
    LET row == RowById(tbl, meal_id)
    IN  IF row = None THEN [result |-> NotFound, ret |-> None]
        ELSE [result |-> OK,
              ret |-> Meal(row.id, row.meal, row.cuisine, row.price, row.difficulty)]

\* What get_meal_by_id does with the fetched row: not found, deleted, or the
\* Meal built from columns 0..4 (whose constructor may raise).
get_meal_by_id_result(tbl, meal_id) ==
    LET row == RowById(tbl, meal_id)
    IN  IF row = None THEN [result |-> NotFound, ret |-> None]
        ELSE IF row.deleted THEN [result |-> AlreadyDeleted, ret |-> None]
        ELSE IF ~Meal_post_init(row.price, row.difficulty)
        THEN [result |-> InvalidArgument, ret |-> None]
        ELSE [result |-> OK,
              ret |-> Meal(row.id, row.meal, row.cuisine, row.price, row.difficulty)]

\* A plausible slip: cuisine and difficulty are taken from each other's column.
get_meal_by_name_swapped(tbl, meal_name) ==
    LET row == RowByName(tbl, meal_name)
    IN  IF row = None THEN [result |-> NotFound, ret |-> None]
        ELSE IF row.deleted THEN [result |-> AlreadyDeleted, ret |-> None]
        ELSE [result |-> OK,
              ret |-> Meal(row.id, row.meal, row.difficulty, row.price, row.cuisine)]

\* What get_meal_by_name does with the fetched row.
get_meal_by_name_result(tbl, meal_name) ==
    LET row == RowByName(tbl, meal_name)
    IN  IF row = None THEN [result |-> NotFound, ret |-> None]
        ELSE IF row.deleted THEN [result |-> AlreadyDeleted, ret |-> None]
        ELSE IF ~Meal_post_init(row.price, row.difficulty)
        THEN [result |-> InvalidArgument, ret |-> None]
        ELSE [result |-> OK,
              ret |-> Meal(row.id, row.meal, row.cuisine, row.price, row.difficulty)]

get_meal_by_id(c, seq) ==
    /\ Idle(c, seq)
    /\ \E meal_id \in Ids :
        last' = Done("get_meal_by_id", <<meal_id>>,
                     get_meal_by_id_result(meals, meal_id).result,
                     get_meal_by_id_result(meals, meal_id).ret, TRUE, 1)
    /\ UNCHANGED <<meals, pc, req, okDeletes>>

get_meal_by_name(c, seq) ==
    /\ Idle(c, seq)
    /\ \E meal_name \in Names :
        last' = Done("get_meal_by_name", <<meal_name>>,
                     get_meal_by_name_result(meals, meal_name).result,
                     get_meal_by_name_result(meals, meal_name).ret, TRUE, 1)
    /\ UNCHANGED <<meals, pc, req, okDeletes>>

-----------------------------------------------------------------------------
(* get_leaderboard *)

\* FROM meals WHERE deleted = false AND battles > 0: the positions selected.
LeaderboardRows(tbl) ==
    {i \in 1..Len(tbl) : ~tbl[i].deleted /\ tbl[i].battles > 0}

\* A plausible slip: ORDER BY wins DESC whatever sort_by is.
MayPrecedeByWinsOnly(a, b, sort_by) == a.wins >= b.wins

\* ORDER BY wins DESC / ORDER BY win_pct DESC, win_pct = wins * 1.0 / battles:
\* row a may stand before row b.  Ratios are compared by cross-multiplying
\* (battles > 0 in every selected row).
MayPrecede(a, b, sort_by) ==
    IF sort_by = "win_pct"
    THEN a.wins * b.battles >= b.wins * a.battles
    ELSE a.wins >= b.wins

\* round(row[7] * 100, 1), in tenths of a percent.  Python rounds halves to
\* even; an exact half needs battles to be a multiple of 16.
RoundPct(wins, battles) ==
    LET q == (1000 * wins) \div battles
        r == (1000 * wins) % battles
    IN  IF 2 * r < battles THEN q
        ELSE IF 2 * r > battles THEN q + 1
        ELSE IF q % 2 = 0 THEN q ELSE q + 1

\* The dictionary built from one fetched row.
LeaderboardEntry(row) ==
    [id |-> row.id, meal |-> row.meal, cuisine |-> row.cuisine,
     price |-> row.price, difficulty |-> row.difficulty,
     battles |-> row.battles, wins |-> row.wins,
     win_pct |-> RoundPct(row.wins, row.battles)]

\* The lists fetchall() can give: the selected rows, each once, in an order
\* the ORDER BY allows (rows with equal keys come in either order).
LeaderboardResults(tbl, sort_by) ==
    LET sel == LeaderboardRows(tbl)
        n == Cardinality(sel)
        orders == {p \in [1..n -> sel] :
                     /\ \A j, k \in 1..n : j # k => p[j] # p[k]
                     /\ \A j \in 1..n : j < n =>
                            MayPrecede(tbl[p[j]], tbl[p[j + 1]], sort_by)}
    IN  {[j \in 1..n |-> LeaderboardEntry(tbl[p[j]])] : p \in orders}

get_leaderboard(c, seq) ==
    /\ Idle(c, seq)
    /\ \E sort_by \in SortInputs :
        IF sort_by # "win_pct" /\ sort_by # "wins"
        THEN last' = Done("get_leaderboard", <<sort_by>>, InvalidArgument,
                          None, FALSE, 0)
        ELSE \E rows \in LeaderboardResults(meals, sort_by) :
                last' = Done("get_leaderboard", <<sort_by>>, OK, rows, TRUE, 1)
    /\ UNCHANGED <<meals, pc, req, okDeletes>>

-----------------------------------------------------------------------------
(* Constructing a Meal directly *)

new_Meal ==
    /\ \E id \in Ids, meal \in Names, cuisine \in Cuisines,
          price \in NumericPrices, difficulty \in DifficultyInputs :
        IF Meal_post_init(price.val, difficulty)
        THEN last' = Done("Meal", <<id, meal, cuisine, price, difficulty>>, OK,
                          Meal(id, meal, cuisine, price.val, difficulty), FALSE, 0)
        ELSE last' = Done("Meal", <<id, meal, cuisine, price, difficulty>>,
                          InvalidArgument, None, FALSE, 0)
    /\ UNCHANGED <<meals, pc, req, okDeletes>>

-----------------------------------------------------------------------------
(* Specifications *)

Init ==
    /\ meals = <<>>
    /\ pc = [c \in Callers |-> "idle"]
    /\ req = [c \in Callers |-> NoReq]
    /\ last = Done("none", <<>>, OK, None, FALSE, 0)
    /\ okDeletes = [id \in Ids |-> 0]

\* One call at a time: a call starts only when no call is in flight.
Next ==
    \E c \in {SeqCaller} :
        \/ create_meal(c, TRUE)
        \/ delete_meal_select(c, TRUE)
        \/ delete_meal_update(c)
        \/ update_meal_stats_select(c, TRUE)
        \/ update_meal_stats_update(c)
        \/ get_meal_by_id(c, TRUE)
        \/ get_meal_by_name(c, TRUE)
        \/ get_leaderboard(c, TRUE)

Spec == Init /\ [][Next]_vars

\* Independent callers: the statements of their calls interleave.
ConcNext ==
    \E c \in Callers :
        \/ create_meal(c, FALSE)
        \/ delete_meal_select(c, FALSE)
        \/ delete_meal_update(c)
        \/ update_meal_stats_select(c, FALSE)
        \/ update_meal_stats_update(c)

ConcSpec == Init /\ [][ConcNext]_vars

\* The Meal constructor on its own.
MealNext == new_Meal

MealSpec == Init /\ [][MealNext]_vars

-----------------------------------------------------------------------------
(* Properties of create_meal *)

\* The step ends a create_meal call (last' holds its arguments and outcome).
CreateReturned == last'.op = "create_meal"

\* C1: create_meal with a valid price and difficulty and a name some row
\* already holds raises the duplicate-name ValueError (DuplicateEntity), and
\* the table after the call is the table before it: the row of that name
\* keeps every column and no row is added.
C1_DuplicateCreateLeavesStore ==
    [][(/\ CreateReturned
        /\ last'.args[3].num /\ last'.args[3].val > 0
        /\ last'.args[4] \in Difficulties
        /\ \E i \in 1..Len(meals) : meals[i].meal = last'.args[1])
       => (/\ last'.result = DuplicateEntity
           /\ meals' = meals)]_vars

\* A duplicate create has returned whose cuisine, price and difficulty all
\* differ from those of the row holding the name.
C1_Witness ==
    /\ last.op = "create_meal"
    /\ last.result = DuplicateEntity
    /\ \E i \in 1..Len(meals) :
          /\ meals[i].meal = last.args[1]
          /\ meals[i].cuisine # last.args[2]
          /\ meals[i].price # last.args[3].val
          /\ meals[i].difficulty # last.args[4]
          /\ meals[i].battles > 0

\* C2: create_meal with a price that is not a number or is <= 0, or with a
\* difficulty other than LOW, MED, HIGH, raises the invalid-argument
\* ValueError without entering get_db_connection or executing a statement,
\* whatever the name and cuisine, and the table is unchanged.
C2_InvalidCreateRejectedBeforeStorage ==
    [][(/\ CreateReturned
        /\ \/ ~last'.args[3].num
           \/ last'.args[3].val <= 0
           \/ last'.args[4] \notin Difficulties)
       => (/\ last'.result = InvalidArgument
           /\ ~last'.conn
           /\ last'.stmts = 0
           /\ meals' = meals)]_vars

\* An invalid create of a name that is not in a non-empty table has returned.
C2_Witness ==
    /\ last.op = "create_meal"
    /\ last.args[3].num /\ last.args[3].val = 0
    /\ last.result = InvalidArgument
    /\ Len(meals) = 1
    /\ meals[1].meal # last.args[1]

\* The step is a get_meal_by_name of the name a successful create_meal has
\* just inserted.
GetFollowsCreate ==
    /\ last.op = "create_meal"
    /\ last.result = OK
    /\ last'.op = "get_meal_by_name"
    /\ last'.args[1] = last.args[1]

\* C3 as stated: the Meal returned by get_meal_by_name right after a
\* successful create_meal has the created name, cuisine, price and
\* difficulty and carries battles = 0 and wins = 0.
C3_AsStated ==
    [][GetFollowsCreate
       => (/\ last'.result = OK
           /\ last'.ret.meal = last.args[1]
           /\ last'.ret.cuisine = last.args[2]
           /\ last'.ret.price = last.args[3].val
           /\ last'.ret.difficulty = last.args[4]
           /\ "battles" \in DOMAIN last'.ret /\ last'.ret.battles = 0
           /\ "wins" \in DOMAIN last'.ret /\ last'.ret.wins = 0)]_vars

\* C3 (amended): get_meal_by_name right after a successful create_meal
\* returns a Meal with the created name, cuisine, price and difficulty and
\* the id of the new row; the Meal has no counters, and the row it was read
\* from has battles = 0 and wins = 0.
C3_CreateThenGetByName ==
    [][GetFollowsCreate
       => (/\ last'.result = OK
           /\ DOMAIN last'.ret = {"id", "meal", "cuisine", "price", "difficulty"}
           /\ last'.ret.meal = last.args[1]
           /\ last'.ret.cuisine = last.args[2]
           /\ last'.ret.price = last.args[3].val
           /\ last'.ret.difficulty = last.args[4]
           /\ \E i \in 1..Len(meals') :
                 /\ meals'[i].meal = last.args[1]
                 /\ meals'[i].id = last'.ret.id
                 /\ meals'[i].battles = 0
                 /\ meals'[i].wins = 0)]_vars

\* A Meal has been returned for the second row of the table.
C3_Witness ==
    /\ last.op = "get_meal_by_name"
    /\ last.result = OK
    /\ Len(meals) = 2
    /\ last.ret.id = 2
    /\ meals[2].battles = 0

-----------------------------------------------------------------------------
(* Properties of delete_meal *)

\* The step ends a delete_meal call.
DeleteReturned == last'.op = "delete_meal" /\ last'.result # Pending

\* C4: called one at a time, delete_meal on the id of an active row returns
\* normally and sets that row's deleted flag, changing nothing else; once a
\* delete_meal of an id has returned normally, every later delete_meal of
\* that id raises the has-been-deleted ValueError (AlreadyDeleted) and
\* leaves the table as it was, whatever calls ran in between.
C4_SecondDeleteFails ==
    [][DeleteReturned
       => \A i \in 1..Len(meals) :
            meals[i].id = last'.args[1]
            => IF ~meals[i].deleted
               THEN /\ okDeletes[meals[i].id] = 0
                    /\ last'.result = OK
                    /\ meals' = [meals EXCEPT ![i].deleted = TRUE]
               ELSE /\ okDeletes[meals[i].id] = 1
                    /\ last'.result = AlreadyDeleted
                    /\ meals' = meals]_vars

\* A second delete of a row has failed after the row took part in battles
\* and a second row was created.
C4_Witness ==
    /\ last.op = "delete_meal"
    /\ last.result = AlreadyDeleted
    /\ okDeletes[last.args[1]] = 1
    /\ Len(meals) = 2
    /\ \E i \in 1..Len(meals) :
          meals[i].id = last.args[1] /\ meals[i].deleted /\ meals[i].battles > 0

\* C10: when callers run delete_meal on the same active row concurrently, at
\* most one of the calls returns normally, in every interleaving of their
\* SELECT and UPDATE statements.
C10_AtMostOneDeleteSucceeds ==
    \A id \in Ids : okDeletes[id] <= 1

-----------------------------------------------------------------------------
(* Properties of update_meal_stats *)

\* The step ends an update_meal_stats call.
StatsReturned == last'.op = "update_meal_stats" /\ last'.result # Pending

\* C5: update_meal_stats(id, 'win') on an active row adds exactly 1 to its
\* battles and 1 to its wins, update_meal_stats(id, 'loss') adds exactly 1
\* to its battles and nothing to its wins; every other column of the row and
\* every other row stay as they were.
C5_StatsIncrement ==
    [][(StatsReturned /\ last'.args[2] \in {"win", "loss"})
       => \A i \in 1..Len(meals) :
            (meals[i].id = last'.args[1] /\ ~meals[i].deleted)
            => /\ last'.result = OK
               /\ meals' = [meals EXCEPT
                              ![i].battles = @ + 1,
                              ![i].wins = IF last'.args[2] = "win" THEN @ + 1 ELSE @]]_vars

\* A loss has been recorded on a row that had a win, beside another row.
C5_Witness ==
    /\ last.op = "update_meal_stats"
    /\ last.args[2] = "loss"
    /\ last.result = OK
    /\ Len(meals) = 2
    /\ \E i \in 1..Len(meals) :
          meals[i].id = last.args[1] /\ meals[i].wins = 1 /\ meals[i].battles = 2

\* C6: update_meal_stats with a result other than 'win' and 'loss' raises the
\* invalid-argument ValueError for every id, whether it names an active row,
\* a soft-deleted row or no row, before any statement is executed.
C6_InvalidResultRejectedFirst ==
    (/\ last.op = "update_meal_stats"
     /\ last.result # Pending
     /\ last.args[2] \notin {"win", "loss"})
    => (/\ last.result = InvalidArgument
        /\ ~last.conn
        /\ last.stmts = 0)

-----------------------------------------------------------------------------
(* Properties of get_meal_by_id and get_meal_by_name *)

\* What a lookup that fetched row (or nothing) must have ended in.
LookupAnswers(found, outcome) ==
    IF found = {} THEN outcome.result = NotFound /\ outcome.ret = None
    ELSE \A row \in found :
            IF row.deleted
            THEN outcome.result = AlreadyDeleted /\ outcome.ret = None
            ELSE /\ outcome.result = OK
                 /\ outcome.ret = [id |-> row.id, meal |-> row.meal,
                                   cuisine |-> row.cuisine, price |-> row.price,
                                   difficulty |-> row.difficulty]

\* C7: get_meal_by_id and get_meal_by_name raise the has-been-deleted
\* ValueError (AlreadyDeleted) for a soft-deleted row and return nothing,
\* return the Meal of the row when a row with that key exists and is not
\* deleted, and raise the not-found ValueError when no row has the key,
\* after any sequence of create_meal, delete_meal and update_meal_stats.
C7_LookupHidesDeleted ==
    /\ last.op = "get_meal_by_id"
       => LookupAnswers({meals[i] : i \in {j \in 1..Len(meals) :
                                              meals[j].id = last.args[1]}}, last)
    /\ last.op = "get_meal_by_name"
       => LookupAnswers({meals[i] : i \in {j \in 1..Len(meals) :
                                              meals[j].meal = last.args[1]}}, last)

\* A lookup by id has been refused for a deleted row that had battles.
C7_Witness ==
    /\ last.op = "get_meal_by_id"
    /\ last.result = AlreadyDeleted
    /\ \E i \in 1..Len(meals) :
          meals[i].id = last.args[1] /\ meals[i].deleted /\ meals[i].wins > 0

-----------------------------------------------------------------------------
(* Properties of get_leaderboard *)

\* C8: get_leaderboard('wins') returns its entries in non-increasing order
\* of wins and get_leaderboard('win_pct') in non-increasing order of
\* wins / battles; the entries are exactly the rows with deleted = false and
\* battles > 0, each once, so a row without battles or a soft-deleted row
\* never appears.
C8_LeaderboardSortedAndFiltered ==
    (last.op = "get_leaderboard" /\ last.args[1] \in {"wins", "win_pct"})
    => LET lb == last.ret
       IN  /\ last.result = OK
           /\ \A j \in 1..Len(lb) : j < Len(lb) =>
                 IF last.args[1] = "wins"
                 THEN lb[j].wins >= lb[j + 1].wins
                 ELSE lb[j].wins * lb[j + 1].battles >= lb[j + 1].wins * lb[j].battles
           /\ \A j, k \in 1..Len(lb) : j # k => lb[j].id # lb[k].id
           /\ \A j \in 1..Len(lb) :
                 \E i \in 1..Len(meals) :
                    /\ meals[i].id = lb[j].id
                    /\ meals[i].meal = lb[j].meal
                    /\ meals[i].battles = lb[j].battles
                    /\ meals[i].wins = lb[j].wins
                    /\ ~meals[i].deleted
                    /\ meals[i].battles > 0
           /\ \A i \in 1..Len(meals) :
                 (~meals[i].deleted /\ meals[i].battles > 0)
                 => \E j \in 1..Len(lb) : lb[j].id = meals[i].id

\* A leaderboard by win_pct has put a row with fewer wins first.
C8_Witness ==
    /\ last.op = "get_leaderboard"
    /\ last.args[1] = "win_pct"
    /\ last.result = OK
    /\ Len(last.ret) = 2
    /\ last.ret[1].wins < last.ret[2].wins

-----------------------------------------------------------------------------
(* Properties of the Meal constructor *)

\* C9: constructing a Meal with price <= 0 (price = 0 included) or with a
\* difficulty other than LOW, MED, HIGH raises an error, so no Meal with
\* price <= 0 exists.
C9_MealRejectsNonPositivePrice ==
    (/\ last.op = "Meal"
     /\ \/ last.args[4].val <= 0
        \/ last.args[5] \notin Difficulties)
    => (last.result # OK /\ last.ret = None)

-----------------------------------------------------------------------------
(* Properties of the deleted flag and of the counters *)

\* C11: when update_meal_stats runs concurrently with delete_meal on the same
\* id, in no interleaving are battles or wins of the row changed once the
\* delete has set and committed deleted = TRUE: the counters of a
\* soft-deleted row never change.
C11_DeletedRowCountersFrozen ==
    [][\A i \in 1..Len(meals) :
          meals[i].deleted
          => /\ meals'[i].battles = meals[i].battles
             /\ meals'[i].wins = meals[i].wins]_vars

\* C12: over any sequence of create_meal, delete_meal, update_meal_stats,
\* get_meal_by_id, get_meal_by_name and get_leaderboard calls, no row leaves
\* the table or changes its id, a row's deleted flag never goes back to
\* FALSE, and it changes only in the step in which a delete_meal of that
\* row's id returns normally.
C12_DeletedIsTerminal ==
    [][/\ Len(meals') >= Len(meals)
       /\ \A i \in 1..Len(meals) :
             /\ meals'[i].id = meals[i].id
             /\ meals[i].deleted => meals'[i].deleted
             /\ meals'[i].deleted # meals[i].deleted
                => /\ last'.op = "delete_meal"
                   /\ last'.result = OK
                   /\ last'.args[1] = meals[i].id
       /\ \A i \in 1..Len(meals') : i > Len(meals) => ~meals'[i].deleted]_vars

\* A delete has returned in a table whose other row is active and has
\* battles, and the deleted row has battles too.
C12_Witness ==
    /\ last.op = "delete_meal"
    /\ last.result = OK
    /\ Len(meals) = 2
    /\ \E i, j \in 1..2 :
          /\ meals[i].id = last.args[1]
          /\ meals[i].deleted /\ meals[i].battles > 0
          /\ ~meals[j].deleted /\ meals[j].battles > 0

\* C13: in every reachable state every row has 0 <= wins <= battles, whether
\* the calls run one after the other or interleave.
C13_WinsAtMostBattles ==
    \A i \in 1..Len(meals) :
        /\ 0 <= meals[i].wins
        /\ meals[i].wins <= meals[i].battles

\* A winning stat update is still in flight on a row that another caller has
\* deleted meanwhile and whose every battle so far was a win, beside a row
\* that lost one.
C13_Witness ==
    /\ pc["c1"] = "stats_update"
    /\ req["c1"].result = "win"
    /\ Len(meals) = 2
    /\ \E i, j \in 1..2 :
          /\ meals[i].id = req["c1"].id
          /\ meals[i].deleted
          /\ meals[i].battles > 0
          /\ meals[i].wins = meals[i].battles
          /\ meals[j].wins < meals[j].battles

\* A valid create_meal of a name held by a soft-deleted row has returned.
CreateOfDeletedName ==
    /\ CreateReturned
    /\ last'.args[3].num /\ last'.args[3].val > 0
    /\ last'.args[4] \in Difficulties
    /\ \E i \in 1..Len(meals) : meals[i].meal = last'.args[1] /\ meals[i].deleted

\* C14: a soft-deleted meal keeps its name: a valid create_meal of that name
\* raises the already-exists ValueError (DuplicateEntity) and neither adds a
\* row nor changes the deleted one, get_meal_by_name of it raises the
\* has-been-deleted ValueError (AlreadyDeleted), and no two rows of the
\* table, deleted or not, ever hold the same name.
C14_DeletedNameStaysReserved ==
    [][/\ CreateOfDeletedName
          => (last'.result = DuplicateEntity /\ meals' = meals)
       /\ (/\ last'.op = "get_meal_by_name"
           /\ \E i \in 1..Len(meals) :
                 meals[i].meal = last'.args[1] /\ meals[i].deleted)
          => (last'.result = AlreadyDeleted /\ last'.ret = None)
       /\ \A i, j \in 1..Len(meals') :
             meals'[i].meal = meals'[j].meal => i = j]_vars

\* A create of the name of a deleted row, with other field values than the
\* row's, has been refused.
C14_Witness ==
    /\ last.op = "create_meal"
    /\ last.result = DuplicateEntity
    /\ \E i \in 1..Len(meals) :
          /\ meals[i].meal = last.args[1]
          /\ meals[i].deleted
          /\ meals[i].cuisine # last.args[2]

====
